---- MODULE Spec2Model ----
(***************************************************************************)
(* Model of the bats_api extension module's initialization function        *)
(* (src/BATSPythonAPI.cpp, BOOST_PYTHON_MODULE(bats_api)).                 *)
(*                                                                         *)
(* The body is four sequential statements: PyEval_InitThreads(), then the  *)
(* static export_to_python() of BATSTradingStatusMsg, BATSTradeMsg and     *)
(* BATSRetailPriceImproveMsg.  The body has no try/catch, so a C++         *)
(* exception thrown by an export routine leaves the body at once.          *)
(*                                                                         *)
(* The export routines live in headers that are not part of src/; what     *)
(* they do (register their type's symbol, or raise) is modelled from the   *)
(* specification.  PyEval_InitThreads is the CPython C-API call: it        *)
(* creates the global interpreter lock and acquires it for the calling     *)
(* thread when the lock does not exist yet, and is a no-op otherwise.      *)
(***************************************************************************)
EXTENDS Integers, Sequences, FiniteSets, TLC

\* Number of times the embedding host runs the module initialization.
MaxLoads == 3

\* ---------------------------------------------------------------- names
InitThreadsCall == "PyEval_InitThreads"
StatusMsg == "BATSTradingStatusMsg"
TradeMsg == "BATSTradeMsg"
RetailMsg == "BATSRetailPriceImproveMsg"

MsgTypes == {StatusMsg, TradeMsg, RetailMsg}

\* The order of the three export statements in the body.
ExportOrder == <<StatusMsg, TradeMsg, RetailMsg>>

\* Attributes the host puts in the fresh module object before the body runs.
HostAttrs == {"__name__"}

\* Positions of the body (one per statement), plus its two ways of ending.
BodyPcs == {"init_threads", "export_status", "export_trade", "export_rpi"}
EndPcs == {"done", "failed"}

VARIABLES
    pc,          \* position of the initialization body; "idle" = not running
    gil,         \* "absent": thread support off, no interpreter lock exists;
                 \* "caller": lock exists and is held by the thread running the body
    namespace,   \* names bound in the bats_api module object of this load
    trace,       \* calls made by the body in this load, in order
    lockOps,     \* lock operations performed by the body's own statements
    raised,      \* export routine whose exception is in flight, or "none"
    load,        \* number of loads started
    startGil,    \* gil when this load's body was entered
    history      \* what the host recorded for each finished load

vars == <<pc, gil, namespace, trace, lockOps, raised, load, startGil, history>>

\* ------------------------------------------------------------- helpers
Count(e, s) == Cardinality({i \in DOMAIN s : s[i] = e})

IsPrefix(s, t) == Len(s) <= Len(t) /\ \A i \in 1..Len(s) : s[i] = t[i]

\* The export calls of a trace, in order (the thread-safety call dropped).
ExportsOf(s) == SelectSeq(s, LAMBDA e : e \in MsgTypes)

ThreadsInitialized == gil # "absent"

\* Statement that follows position `at` when the statement at `at` returns.
AfterSkipsStatus(at) ==
    CASE at = "init_threads"  -> "export_trade"
      [] at = "export_status" -> "export_trade"
      [] at = "export_trade"  -> "export_rpi"
      [] at = "export_rpi"    -> "done"

AfterSkipsTrade(at) ==
    CASE at = "init_threads"  -> "export_status"
      [] at = "export_status" -> "export_rpi"
      [] at = "export_trade"  -> "export_rpi"
      [] at = "export_rpi"    -> "done"

AfterSwapsOrder(at) ==
    CASE at = "init_threads"  -> "export_trade"
      [] at = "export_trade"  -> "export_status"
      [] at = "export_status" -> "export_rpi"
      [] at = "export_rpi"    -> "done"

After(at) ==
    CASE at = "init_threads"  -> "export_status"
      [] at = "export_status" -> "export_trade"
      [] at = "export_trade"  -> "export_rpi"
      [] at = "export_rpi"    -> "done"

\* ------------------------------------------------- PyEval_InitThreads()
\* Interpreter lock after the call: created and held by the caller.
EnableThreadsNoop(g) == g

EnableThreads(g) == "caller"

\* Lock operations of the call: the lock is acquired only when it is newly
\* created; each entry is <<operation, holder of the lock before it>>.
InitLockOpsReleases(g) ==
    IF g = "absent" THEN << <<"acquire", "nobody">>, <<"release", "caller">> >>
    ELSE << >>

InitLockOps(g) ==
    IF g = "absent" THEN << <<"acquire", "nobody">> >> ELSE << >>

\* ------------------------------------------------------- export routines
\* Names an export routine binds in the module namespace.
Registers(t) == {t}

\* ------------------------------------------------------------- actions
Init ==
    /\ pc = "idle"
    /\ gil \in {"absent", "caller"}
    /\ namespace = {}
    /\ trace = << >>
    /\ lockOps = << >>
    /\ raised = "none"
    /\ load = 0
    /\ startGil = gil
    /\ history = << >>

\* The host creates the module object and enters the body.
BeginLoad ==
    /\ pc = "idle"
    /\ load < MaxLoads
    /\ pc' = "init_threads"
    /\ load' = load + 1
    /\ namespace' = HostAttrs
    /\ trace' = << >>
    /\ lockOps' = << >>
    /\ raised' = "none"
    /\ startGil' = gil
    /\ UNCHANGED <<gil, history>>

\* PyEval_InitThreads();
InitThreadsRegistersToo ==
    /\ pc = "init_threads"
    /\ trace' = Append(trace, InitThreadsCall)
    /\ gil' = EnableThreads(gil)
    /\ lockOps' = lockOps \o InitLockOps(gil)
    /\ pc' = After("init_threads")
    /\ namespace' = namespace \cup {"init_threads"}
    /\ UNCHANGED <<raised, load, startGil, history>>

InitThreads ==
    /\ pc = "init_threads"
    /\ trace' = Append(trace, InitThreadsCall)
    /\ gil' = EnableThreads(gil)
    /\ lockOps' = lockOps \o InitLockOps(gil)
    /\ pc' = After("init_threads")
    /\ UNCHANGED <<namespace, raised, load, startGil, history>>

\* The export routine returns: its names are bound, the body goes on.
OnReturn(t, at) ==
    /\ pc' = After(at)
    /\ namespace' = namespace \cup Registers(t)
    /\ raised' = raised

\* The export routine raises after binding `part` of its names: the body has
\* no handler, so it is left at once and nothing is undone.
OnRaiseSwallowed(t, at, part) ==
    /\ pc' = After(at)
    /\ raised' = t
    /\ namespace' = namespace \cup part

OnRaiseRollsBack(t, at, part) ==
    /\ pc' = "failed"
    /\ raised' = t
    /\ namespace' = HostAttrs

OnRaise(t, at, part) ==
    /\ pc' = "failed"
    /\ raised' = t
    /\ namespace' = namespace \cup part

\* T::export_to_python();
ExportStep(t, at) ==
    /\ pc = at
    /\ trace' = Append(trace, t)
    /\ \/ OnReturn(t, at)
       \/ \E part \in SUBSET Registers(t) : OnRaise(t, at, part)
    /\ UNCHANGED <<gil, lockOps, load, startGil, history>>

ExportStatus == ExportStep(StatusMsg, "export_status")

ExportTrade == ExportStep(TradeMsg, "export_trade")

ExportRetail == ExportStep(RetailMsg, "export_rpi")

\* The body has ended; the host records the outcome and the export order.
HostRecords ==
    /\ pc \in EndPcs
    /\ history' = Append(history,
                    [outcome |-> pc, order |-> ExportsOf(trace),
                     names |-> namespace])
    /\ pc' = "idle"
    /\ UNCHANGED <<gil, namespace, trace, lockOps, raised, load, startGil>>

Body == InitThreads \/ ExportStatus \/ ExportTrade \/ ExportRetail

Next ==
    \/ BeginLoad
    \/ InitThreads
    \/ ExportStatus
    \/ ExportTrade
    \/ ExportRetail
    \/ HostRecords

Spec == Init /\ [][Next]_vars

\* The body runs to its end in the calling thread once entered.
FairSpec == Spec /\ WF_vars(Body)

TypeOK ==
    /\ pc \in BodyPcs \cup EndPcs \cup {"idle"}
    /\ gil \in {"absent", "caller"}
    /\ namespace \subseteq HostAttrs \cup MsgTypes
    /\ raised \in MsgTypes \cup {"none"}
    /\ load \in 0..MaxLoads
    /\ Len(history) <= load

\* ------------------------------------------------------------ properties
\* Position of an export routine in the body, 1..3.
IndexOf(t) == CHOOSE i \in 1..Len(ExportOrder) : ExportOrder[i] = t

\* Rank of a position in the body's text; both endings come last.
Rank(p) ==
    CASE p = "init_threads"  -> 1
      [] p = "export_status" -> 2
      [] p = "export_trade"  -> 3
      [] p = "export_rpi"    -> 4
      [] OTHER               -> 5

Started == pc \in (BodyPcs \ {"init_threads"}) \cup EndPcs

\* C1: in every run of the initialization PyEval_InitThreads is called
\* exactly once, as the first call, and thread support is enabled whenever
\* an export_to_python call has been made.
C1_ThreadsEnabledOnceBeforeExports ==
    /\ (pc = "init_threads") => (trace = << >>)
    /\ Started =>
          /\ trace[1] = InitThreadsCall
          /\ Count(InitThreadsCall, trace) = 1
          /\ ThreadsInitialized
    /\ (ExportsOf(trace) # << >>) =>
          /\ ThreadsInitialized
          /\ trace[1] = InitThreadsCall

C1_Witness ==
    /\ pc = "export_trade"
    /\ startGil = "absent"
    /\ ThreadsInitialized
    /\ trace = <<InitThreadsCall, StatusMsg>>

\* C2: when the initialization completes normally, all three message types
\* are bound in the module namespace and each export routine has been
\* called exactly once.
C2_AllRegisteredOnce ==
    (pc = "done") =>
        /\ MsgTypes \subseteq namespace
        /\ \A t \in MsgTypes : Count(t, trace) = 1

C2_Witness ==
    /\ pc = "done"
    /\ \A t \in MsgTypes : t \in namespace /\ Count(t, trace) = 1

\* C3: the export routines are called in the order status, trade,
\* price-improve, each after the previous one has returned, and the order
\* the host records is the same on every completed load.
C3_FixedOrder ==
    /\ IsPrefix(ExportsOf(trace), ExportOrder)
    /\ \A j \in 1..(Len(ExportsOf(trace)) - 1) :
          Registers(ExportsOf(trace)[j]) \subseteq namespace
    /\ \A i \in DOMAIN history :
          /\ IsPrefix(history[i].order, ExportOrder)
          /\ (history[i].outcome = "done") => (history[i].order = ExportOrder)

C3_Witness ==
    /\ Len(history) >= 2
    /\ history[1].outcome = "done"
    /\ history[2].outcome = "done"
    /\ history[1].order = history[2].order
    /\ history[1].order = ExportOrder

\* C4: the names the initialization binds in the module namespace are
\* exactly those bound by the export routines it has called; after a
\* completed load the namespace is the host's attributes plus the three
\* message types.
C4_OnlyExportsRegister ==
    /\ (namespace \ HostAttrs) \subseteq
          UNION {Registers(t) : t \in {e \in MsgTypes : Count(e, trace) > 0}}
    /\ (pc = "done") => (namespace = HostAttrs \cup MsgTypes)
    /\ \A i \in DOMAIN history :
          (history[i].outcome = "done") =>
              (history[i].names = HostAttrs \cup MsgTypes)

C4_Witness ==
    /\ pc = "idle"
    /\ history # << >>
    /\ history[Len(history)].outcome = "done"
    /\ namespace \ HostAttrs = MsgTypes

\* C5: an exception raised by an export routine is not caught, masked or
\* retried: the body ends with it in flight, the routine has been called
\* once, nothing is called after it, and the host sees a failed load.
C5_FailurePropagates ==
    (raised # "none") =>
        /\ pc \in {"failed", "idle"}
        /\ Count(raised, trace) = 1
        /\ trace[Len(trace)] = raised
        /\ (pc = "idle") => (history[Len(history)].outcome = "failed")

C5_Witness ==
    /\ raised = TradeMsg
    /\ pc = "idle"
    /\ history[Len(history)].outcome = "failed"

\* C6 as stated: between its start and its end the initialization performs
\* no lock operation and the interpreter lock state of the caller is the
\* same at the end as at the start.
C6_NoLockingAtAll ==
    (pc \in EndPcs) => (lockOps = << >> /\ gil = startGil)

\* C6 amended: the body's own statements release no lock and never acquire a
\* lock that somebody holds; the only lock operation is the acquire of the
\* newly created interpreter lock inside PyEval_InitThreads, made once, in
\* the load that finds thread support off; at the end of the body the lock
\* exists and is held by the caller.
C6_OnlyInitialAcquire ==
    /\ \A i \in DOMAIN lockOps :
          /\ lockOps[i][1] = "acquire"
          /\ lockOps[i][2] = "nobody"
    /\ Len(lockOps) <= 1
    /\ Started => (Len(lockOps) = IF startGil = "absent" THEN 1 ELSE 0)
    /\ (lockOps # << >>) => (load = 1)
    /\ (pc \in EndPcs) => (gil = "caller")

C6_Witness ==
    /\ pc = "done"
    /\ startGil = "absent"
    /\ lockOps = << <<"acquire", "nobody">> >>
    /\ gil = "caller"

\* C7: the body only moves forward, one statement at a time; once entered
\* it ends, and when no export routine raises it ends normally after exactly
\* four calls, the thread-safety enable followed by the three exports.
C7_TerminatesInFourSteps ==
    /\ [][(pc \in BodyPcs /\ pc' # pc) =>
              (pc' = "failed" \/ Rank(pc') = Rank(pc) + 1)]_vars
    /\ []((pc \in EndPcs /\ raised = "none") =>
              (pc = "done" /\ trace = <<InitThreadsCall>> \o ExportOrder))
    /\ ((pc = "init_threads") ~> (pc \in EndPcs))

C7_Witness ==
    /\ pc = "done"
    /\ raised = "none"
    /\ Len(trace) = 4

\* C8: when the k-th export routine raises, no later export routine is
\* called, thread support stays enabled and the names bound by the exports
\* before it stay bound.
C8_NoRollbackOnFailure ==
    (raised # "none") =>
        /\ \A t \in MsgTypes :
              /\ (IndexOf(t) > IndexOf(raised)) => (Count(t, trace) = 0)
              /\ (IndexOf(t) < IndexOf(raised)) =>
                    (Registers(t) \subseteq namespace)
        /\ ThreadsInitialized
        /\ Count(InitThreadsCall, trace) = 1

C8_Witness ==
    /\ raised = RetailMsg
    /\ pc = "failed"
    /\ namespace = HostAttrs \cup {StatusMsg, TradeMsg}
====
